---- MODULE Spec2Model ----
(***************************************************************************)
(* The hybrid exclusion engine of agents/exclusion_agent.py: rule loading, *)
(* the deterministic keyword/flag pass, and the confidence-gated AI pass   *)
(* with its cache.  Text is a sequence of one-character strings, so that   *)
(* lower-casing, trimming, matching and key building are computed.         *)
(***************************************************************************)
EXTENDS Integers, Sequences, FiniteSets, TLC

(* ----------------------------- bounds ---------------------------------- *)
\* rows of one DataFrame handed to assess
MaxRows == 2
\* entries of one classifier response's "results" list
MaxResults == 2
\* assess calls on one engine instance
MaxRuns == 2
\* ai_batch_size and max_ai_items of the instance, scaled down (source: 50, 1500)
AiBatchSize == 1
MaxAiItems == 2
\* classifier calls made by one engine instance over all its assess calls
MaxCalls == 2

(* ------------------------------ text ----------------------------------- *)
UpperLetters == <<"A","B","C","D","E","F","G","H","I","J","K","L","M","N","O","P","Q","R","S","T","U","V","W","X","Y","Z">>
LowerLetters == <<"a","b","c","d","e","f","g","h","i","j","k","l","m","n","o","p","q","r","s","t","u","v","w","x","y","z">>
Digits == {"0","1","2","3","4","5","6","7","8","9"}

LowerMap == [c \in {UpperLetters[i] : i \in 1..26} |->
               LowerLetters[CHOOSE i \in 1..26 : UpperLetters[i] = c]]

UpperMap == [c \in {LowerLetters[i] : i \in 1..26} |->
               UpperLetters[CHOOSE i \in 1..26 : LowerLetters[i] = c]]

\* str.lower() on one character
LowerChar(c) == IF c \in DOMAIN LowerMap THEN LowerMap[c] ELSE c

\* str.upper() on one character
UpperChar(c) == IF c \in DOMAIN UpperMap THEN UpperMap[c] ELSE c

Lower(s) == [i \in 1..Len(s) |-> LowerChar(s[i])]

Upper(s) == [i \in 1..Len(s) |-> UpperChar(s[i])]

IsSpace(c) == c \in {" ", "\t", "\n"}

\* str.strip(): drop leading and trailing whitespace
Strip(s) ==
  LET keep == {i \in 1..Len(s) : ~IsSpace(s[i])}
  IN  IF keep = {} THEN <<>>
      ELSE LET lo == CHOOSE i \in keep : \A j \in keep : i <= j
               hi == CHOOSE i \in keep : \A j \in keep : j <= i
           IN  SubSeq(s, lo, hi)

\* norm(s) = str(s).strip().lower()
Norm(s) == Lower(Strip(s))

WordChars == (DOMAIN LowerMap) \cup (DOMAIN UpperMap) \cup Digits \cup {"_"}

\* \w of the regular expression engine
IsWordChar(c) == c \in WordChars

\* "sep".join(parts)
RECURSIVE Join(_, _)
Join(parts, sep) ==
  IF Len(parts) = 0 THEN <<>>
  ELSE IF Len(parts) = 1 THEN parts[1]
  ELSE parts[1] \o sep \o Join(Tail(parts), sep)

\* kw in text (substring containment)
Contains(text, kw) ==
  \E i \in 1..(Len(text) - Len(kw) + 1) : SubSeq(text, i, i + Len(kw) - 1) = kw

\* \b at the gap before position p (1..Len(s)+1)
WordBoundary(s, p) ==
  LET before == p > 1 /\ IsWordChar(s[p - 1])
      after  == p <= Len(s) /\ IsWordChar(s[p])
  IN  before # after

\* _kw_mask by plain containment, without the \b of the pattern
KwMatchSubstring(s, kw0) ==
  \E kw \in {Lower(Strip(kw0))} :
    /\ kw # <<>>
    /\ Contains(Lower(s), kw)

\* _kw_mask for one cell: whole-word/phrase, case-insensitive search
KwMatch(s, kw0) ==
  \E kw \in {Lower(Strip(kw0))} :
    /\ kw # <<>>
    /\ Len(kw) <= Len(s)
    /\ \E i \in 1..(Len(s) - Len(kw) + 1) :
         /\ Lower(SubSeq(s, i, i + Len(kw) - 1)) = kw
         /\ WordBoundary(s, i)
         /\ WordBoundary(s, i + Len(kw))

(* --------------------------- keyword tables ---------------------------- *)
AlcoholDefaults ==
  { <<"b","e","e","r">>, <<"w","i","n","e">>, <<"v","o","d","k","a">>,
    <<"g","i","n">>, <<"w","h","i","s","k","e","y">>, <<"w","h","i","s","k","y">>,
    <<"t","e","q","u","i","l","a">>, <<"b","o","u","r","b","o","n">>, <<"r","u","m">>,
    <<"b","r","a","n","d","y">>, <<"c","i","d","e","r">>, <<"s","e","l","t","z","e","r">>,
    <<"l","i","q","u","e","u","r">>, <<"m","e","z","c","a","l">>, <<"s","a","u","v","i","g","n","o","n">>,
    <<"m","e","r","l","o","t">>, <<"c","a","b","e","r","n","e","t">>, <<"p","i","n","o","t">>,
    <<"i","p","a">>, <<"s","t","o","u","t">>, <<"l","a","g","e","r">>,
    <<"p","i","l","s","n","e","r">> }
GiftCardKeywords ==
  { <<"g","i","f","t"," ","c","a","r","d">>, <<"g","i","f","t"," ","c","a","r","d","s">>, <<"i","t","u","n","e","s"," ","c","a","r","d">>,
    <<"p","r","e","p","a","i","d"," ","c","a","r","d">> }
AbsoluteMarkers ==
  << <<"w","e","a","p","o","n">>,
     <<"w","e","a","p","o","n","s">>,
     <<"a","m","m","o">>,
     <<"a","m","m","u","n","i","t","i","o","n">>,
     <<"f","i","r","e","a","r","m">>,
     <<"g","u","n">>,
     <<"t","a","s","e","r">>,
     <<"p","e","p","p","e","r"," ","s","p","r","a","y">>,
     <<"f","i","r","e","w","o","r","k","s">>,
     <<"e","x","p","l","o","s","i","v","e">>,
     <<"g","r","e","n","a","d","e">>,
     <<"l","i","v","e"," ","a","n","i","m","a","l","s">>,
     <<"l","o","t","t","e","r","y">>,
     <<"d","o","n","a","t","i","o","n">>,
     <<"t","i","p","s">>,
     <<"d","r","y"," ","i","c","e">>,
     <<"d","e","p","o","s","i","t"," ","i","t","e","m","s">>,
     <<"r","e","n","t","a","l"," ","i","t","e","m","s">>,
     <<"w","a","t","e","r"," ","r","e","f","i","l","l","s">>,
     <<"m","l","m">>,
     <<"p","r","o","p","a","n","e"," ","t","a","n","k"," ","r","e","f","i","l","l","s">> >>
PrepaidPhoneKeywords ==
  { <<"p","r","e","p","a","i","d"," ","p","h","o","n","e">>, <<"p","r","e","p","a","i","d"," ","p","h","o","n","e","s">> }
PressKeywords ==
  { <<"m","a","g","a","z","i","n","e">>, <<"m","a","g","a","z","i","n","e","s">>, <<"n","e","w","s","p","a","p","e","r">>,
    <<"n","e","w","s","p","a","p","e","r","s">> }
CbdMarkers ==
  { <<"h","e","m","p">>, <<"c","a","n","n","a","b","i","s">>, <<"t","h","c">>,
    <<"d","e","l","t","a","-","8">>, <<"d","e","l","t","a","-","1","0">> }
CbdKeywords ==
  { <<"h","e","m","p">>, <<"c","a","n","n","a","b","i","s">>, <<"t","h","c">>,
    <<"d","e","l","t","a","-","8">>, <<"d","e","l","t","a","-","1","0">>, <<"d","e","l","t","a"," ","8">>,
    <<"d","e","l","t","a"," ","1","0">>, <<"c","b","d">> }
NicotineMarkers ==
  { <<"t","o","b","a","c","c","o">>, <<"v","a","p","e">>, <<"n","i","c","o","t","i","n","e">>,
    <<"e","-","c","i","g","a","r","e","t","t","e">> }
NicotineKeywords ==
  { <<"t","o","b","a","c","c","o">>, <<"v","a","p","e">>, <<"n","i","c","o","t","i","n","e">>,
    <<"e","-","c","i","g","a","r","e","t","t","e">>, <<"e","c","i","g","a","r","e","t","t","e">>, <<"e"," ","c","i","g","a","r","e","t","t","e">>,
    <<"e","-","c","i","g","s">>, <<"n","i","c","o","t","i","n","e"," ","p","o","u","c","h">>, <<"n","r","t">> }
OtcMarkers ==
  { <<"p","s","e","u","d","o","e","p","h","e","d","r","i","n","e">>, <<"p","s","e">>, <<"c","o","u","g","h">>,
    <<"d","e","x">>, <<"d","e","x","t","r","o","m","e","t","h","o","r","p","h","a","n">> }
OtcKeywords ==
  { <<"p","s","e","u","d","o","e","p","h","e","d","r","i","n","e">>, <<"p","s","e">>, <<"c","o","u","g","h">>,
    <<"c","o","l","d">>, <<"c","o","u","g","h"," ","s","y","r","u","p">>, <<"d","e","x","t","r","o","m","e","t","h","o","r","p","h","a","n">>,
    <<"d","x","m">>, <<"p","a","r","a","c","e","t","a","m","o","l">>, <<"a","c","e","t","a","m","i","n","o","p","h","e","n">>,
    <<"i","b","u","p","r","o","f","e","n">>, <<"n","a","p","r","o","x","e","n">> }
GiftCardMarker == <<"g","i","f","t"," ","c","a","r","d">>
KratomKw == <<"k","r","a","t","o","m">>
HhcKw == <<"h","h","c">>
PrepaidPhoneMarker == <<"p","r","e","p","a","i","d"," ","p","h","o","n","e">>
MagazineMarker == <<"m","a","g","a","z","i","n","e">>
NewspaperMarker == <<"n","e","w","s","p","a","p","e","r">>


(* ------------------------ guidelines / rule loading -------------------- *)
Groups == <<"alcohol", "cbd_thc", "nicotine", "otc_med">>

\* what open("restricted_items.yaml") + yaml.safe_load can give:
\*   missing      the file cannot be opened
\*   unparseable  yaml.safe_load raises
\*   empty        safe_load returns None
\*   toplist      the top-level value is a list, not a mapping
\*   nokey        a mapping without a "restrictions" key
\*   doc          a mapping; restrictions is its "restrictions" list, the entries
\*                tagged str / dict / list / other
\* An entry: [t |-> "str", s |-> text], [t |-> "dict", items |-> <<<<k, v>>, ...>>],
\* [t |-> "list", xs |-> <<text, ...>>] or [t |-> "other"].
RECURSIVE FlattenEntries(_)
FlattenEntries(lst) ==
  IF Len(lst) = 0 THEN <<>>
  ELSE LET item == lst[1]
           here == CASE item.t = "str"  -> <<item.s>>
                     [] item.t = "dict" -> [i \in 1..Len(item.items) |->
                                              item.items[i][1] \o <<":", " ">> \o item.items[i][2]]
                     [] item.t = "list" -> item.xs
                     [] OTHER           -> <<>>
       IN  here \o FlattenEntries(Tail(lst))

\* _load_guidelines: the raw strings, [] on any failure
LoadGuidelines(doc) ==
  CASE doc.kind = "missing"     -> <<>>
    [] doc.kind = "unparseable" -> <<>>
    [] doc.kind = "empty"       -> <<>>
    [] doc.kind = "toplist"     -> <<>>
    [] doc.kind = "nokey"       -> <<>>
    [] doc.kind = "doc"         -> FlattenEntries(doc.restrictions)

\* text = " | ".join(x.lower() for x in raw)
GuidelineText(raw) == Join([i \in 1..Len(raw) |-> Lower(raw[i])], <<" ", "|", " ">>)

\* _build_absolute_keywords (the sorted list, as the set of its elements)
BuildAbsoluteKeywords(raw) ==
  LET text == GuidelineText(raw)
  IN  (IF Contains(text, GiftCardMarker) THEN GiftCardKeywords ELSE {})
      \cup {AbsoluteMarkers[i] : i \in {j \in 1..Len(AbsoluteMarkers) : Contains(text, AbsoluteMarkers[j])}}
      \cup (IF Contains(text, KratomKw) THEN {KratomKw} ELSE {})
      \cup (IF Contains(text, HhcKw) THEN {HhcKw} ELSE {})
      \cup (IF Contains(text, PrepaidPhoneMarker) THEN PrepaidPhoneKeywords ELSE {})
      \cup (IF Contains(text, MagazineMarker) \/ Contains(text, NewspaperMarker)
              THEN PressKeywords ELSE {})

\* _build_flagged_groups: keyword set per group
BuildFlaggedGroups(raw) ==
  LET text == GuidelineText(raw)
      has(ms) == \E m \in ms : Contains(text, m)
  IN  [g \in {Groups[i] : i \in 1..4} |->
         CASE g = "alcohol"  -> {}
           [] g = "cbd_thc"  -> IF has(CbdMarkers) THEN CbdKeywords ELSE {}
           [] g = "nicotine" -> IF has(NicotineMarkers) THEN NicotineKeywords ELSE {}
           [] g = "otc_med"  -> IF has(OtcMarkers) THEN OtcKeywords ELSE {}]

\* __init__ lines 63-70: alcohol defaults when the group came out empty
WithAlcoholDefaults(fg) ==
  IF fg["alcohol"] = {} THEN [fg EXCEPT !["alcohol"] = AlcoholDefaults] ELSE fg

\* the policy documents the model constructs the engine with
PolicyDocs ==
  { [kind |-> "missing", restrictions |-> <<>>],
    [kind |-> "unparseable", restrictions |-> <<>>],
    [kind |-> "empty", restrictions |-> <<>>],
    [kind |-> "toplist", restrictions |-> <<>>],
    [kind |-> "nokey", restrictions |-> <<>>],
    [kind |-> "doc", restrictions |->
       << [t |-> "str", s |-> <<"G","u","n","s"," ","&"," ","v","a","p","e">>] >>] }

\* a policy document of structured rules, as yaml.safe_load gives it:
\*   restrictions:
\*     - {name: Knives, keywords: [knife], absolute: true}
\*     - {name: Alcohol, keywords: [sake], flag_column: IS_ALCOHOL, absolute: false}
\* the values by their str(): str(['knife']) is "['knife']", str(True) is "True"
StructuredDoc ==
  [kind |-> "doc", restrictions |->
     << [t |-> "dict", items |->
           << <<<<"n","a","m","e">>, <<"K","n","i","v","e","s">>>>,
              <<<<"k","e","y","w","o","r","d","s">>, <<"[","'","k","n","i","f","e","'","]">>>>,
              <<<<"a","b","s","o","l","u","t","e">>, <<"T","r","u","e">>>> >>],
        [t |-> "dict", items |->
           << <<<<"n","a","m","e">>, <<"A","l","c","o","h","o","l">>>>,
              <<<<"k","e","y","w","o","r","d","s">>, <<"[","'","s","a","k","e","'","]">>>>,
              <<<<"f","l","a","g","_","c","o","l","u","m","n">>, <<"I","S","_","A","L","C","O","H","O","L">>>>,
              <<<<"a","b","s","o","l","u","t","e">>, <<"F","a","l","s","e">>>> >>] >>]

\* the policy documents the deterministic pass is checked with
RulePolicyDocs == PolicyDocs \cup {StructuredDoc}

(* ------------------------------ cells ---------------------------------- *)
\* A flag cell is [t |-> "bool" | "int" | "float" | "str" | "nan", s |-> str(value)].
BoolCell(b) == [t |-> "bool", s |-> IF b THEN <<"T","r","u","e">> ELSE <<"F","a","l","s","e">>]

\* str(value)
PyStr(cell) == cell.s

TruthyTokens == {<<"1">>, <<"t","r","u","e">>, <<"t">>, <<"y","e","s">>, <<"y">>}

\* _bool_from_cell
BoolFromCell(cell) ==
  IF cell.t = "nan" THEN FALSE
  ELSE IF cell.t = "bool" THEN cell.s = <<"T","r","u","e">>
  ELSE Norm(PyStr(cell)) \in TruthyTokens

(* ---------------------------- flag columns ----------------------------- *)
IS_ALCOHOL == <<"I","S","_","A","L","C","O","H","O","L">>
IS_CBD == <<"I","S","_","C","B","D">>
IS_NICOTINE == <<"I","S","_","N","I","C","O","T","I","N","E">>
IS_OTC_MED == <<"I","S","_","O","T","C","_","M","E","D">>

\* self.flag_columns
FlagColumns(g) ==
  CASE g = "alcohol"  -> IS_ALCOHOL
    [] g = "cbd_thc"  -> IS_CBD
    [] g = "nicotine" -> IS_NICOTINE
    [] g = "otc_med"  -> IS_OTC_MED

\* the synonyms table of _find_flag_col
Synonyms(want) ==
  CASE want = IS_ALCOHOL  -> {<<"A","L","C","O","H","O","L">>, <<"I","S","-","A","L","C","O","H","O","L">>, <<"A","G","E","_","R","E","S","T","R","I","C","T","E","D">>, <<"I","S","_","A","G","E","_","R","E","S","T","R","I","C","T","E","D">>}
    [] want = IS_CBD      -> {<<"C","B","D">>, <<"I","S","-","C","B","D">>, <<"I","S","_","H","E","M","P">>, <<"H","E","M","P">>, <<"T","H","C">>, <<"I","S","_","T","H","C">>}
    [] want = IS_NICOTINE -> {<<"N","I","C","O","T","I","N","E">>, <<"I","S","-","N","I","C","O","T","I","N","E">>, <<"N","R","T">>, <<"T","O","B","A","C","C","O">>, <<"I","S","_","T","O","B","A","C","C","O">>}
    [] want = IS_OTC_MED  -> {<<"O","T","C">>, <<"O","T","C","_","M","E","D">>, <<"O","T","C","-","M","E","D">>, <<"I","S","_","O","T","C">>, <<"C","O","U","G","H","_","C","O","L","D">>, <<"C","O","U","G","H","/","C","O","L","D">>}
    [] OTHER              -> {}

\* _find_flag_col: index into cols of the column found, 0 for None
FindFlagCol(cols, desired) ==
  LET du    == Upper(desired)
      exact == {i \in 1..Len(cols) : Upper(cols[i]) = du}
      syn   == {i \in 1..Len(cols) : Upper(cols[i]) = du \/ Upper(cols[i]) \in Synonyms(du)}
      first(S) == CHOOSE i \in S : \A j \in S : i <= j
  IN  IF exact # {} THEN first(exact)
      ELSE IF syn # {} THEN first(syn)
      ELSE 0

(* ------------------------------ decisions ------------------------------ *)
Unresolved == <<>>
AutoExclude == <<"A","u","t","o"," ","E","x","c","l","u","d","e">>
RestrictedCompliant == <<"R","e","s","t","r","i","c","t","e","d"," ","(","C","o","m","p","l","i","a","n","t",")">>
Review == <<"R","e","v","i","e","w">>
Allow == <<"A","l","l","o","w">>

(* --------------------------- deterministic pass ------------------------ *)
\* audit notes appended to the issue column; a note is
\* [k |-> kind, g |-> group or "", reason |-> text, conf |-> hundredths]
Note(k, g) == [k |-> k, g |-> g, reason |-> <<>>, conf |-> 0]

AiNote(k, reason, conf) == [k |-> k, g |-> "", reason |-> reason, conf |-> conf]

\* set_if_empty without the test for an empty decision
SetAlways(row, hit, value) ==
  IF hit THEN [row EXCEPT !.decision = value] ELSE row

\* set_if_empty that turns a second Review into Auto Exclude
SetEscalating(row, hit, value) ==
  IF hit /\ Strip(row.decision) = <<>> THEN [row EXCEPT !.decision = value]
  ELSE IF hit /\ row.decision = Review /\ value = Review THEN [row EXCEPT !.decision = AutoExclude]
  ELSE row

\* set_if_empty, for one row
SetIfEmpty(row, hit, value) ==
  IF hit /\ Strip(row.decision) = <<>> THEN [row EXCEPT !.decision = value] ELSE row

AppendIssue(row, hit, note) ==
  IF hit THEN [row EXCEPT !.issues = Append(@, note)] ELSE row

\* a keyword set matched against lower-cased L1, L2 and name (lines 137-144, 155-157)
KwHit(row, kws) ==
  \E l1 \in {Lower(row.l1)}, l2 \in {Lower(row.l2)}, names \in {Lower(row.name)} :
    \E kw \in kws : KwMatch(l1, kw) \/ KwMatch(l2, kw) \/ KwMatch(names, kw)

\* step 1 of _manual_exclusion_pass, for one row
AbsolutePass(row, absKws) ==
  IF KwHit(row, absKws)
    THEN SetIfEmpty(AppendIssue(row, TRUE, Note("abs", "")), TRUE, AutoExclude)
    ELSE row

\* handle_group that takes every matched item of a group with a flag column as
\* compliant, whatever the flag holds
HandleGroupFlagBlind(row, cols, fg, g) ==
  IF fg[g] = {} THEN row
  ELSE IF ~KwHit(row, fg[g]) THEN row
  ELSE LET desired == FlagColumns(g)
           col     == FindFlagCol(cols, desired)
       IN  IF col # 0
             THEN SetIfEmpty(AppendIssue(row, TRUE, Note("compliant", g)),
                             TRUE, RestrictedCompliant)
             ELSE SetIfEmpty(AppendIssue(row, TRUE, Note("no_flag_col", g)), TRUE, Review)

\* handle_group with the note of line 171 also where no flag column is found
HandleGroupOneNote(row, cols, fg, g) ==
  IF fg[g] = {} THEN row
  ELSE IF ~KwHit(row, fg[g]) THEN row
  ELSE LET desired == FlagColumns(g)
           col     == FindFlagCol(cols, desired)
       IN  IF col # 0
             THEN IF BoolFromCell(row.flags[col])
                    THEN SetIfEmpty(AppendIssue(row, TRUE, Note("compliant", g)),
                                    TRUE, RestrictedCompliant)
                    ELSE SetIfEmpty(AppendIssue(row, TRUE, Note("missing_flag", g)),
                                    TRUE, Review)
             ELSE SetIfEmpty(AppendIssue(row, TRUE, Note("missing_flag", g)), TRUE, Review)

\* handle_group, for one row
HandleGroup(row, cols, fg, g) ==
  IF fg[g] = {} THEN row
  ELSE IF ~KwHit(row, fg[g]) THEN row
  ELSE LET desired == FlagColumns(g)
           col     == FindFlagCol(cols, desired)
       IN  IF col # 0
             THEN IF BoolFromCell(row.flags[col])
                    THEN SetIfEmpty(AppendIssue(row, TRUE, Note("compliant", g)),
                                    TRUE, RestrictedCompliant)
                    ELSE SetIfEmpty(AppendIssue(row, TRUE, Note("missing_flag", g)),
                                    TRUE, Review)
             ELSE SetIfEmpty(AppendIssue(row, TRUE, Note("no_flag_col", g)), TRUE, Review)

\* the steps of _manual_exclusion_pass
StepNames == <<"input", "absolute", "alcohol", "cbd_thc", "nicotine", "otc_med">>

\* _manual_exclusion_pass, for one row: the row as handed in, after the absolute
\* pass, and after each handle_group call in the order of lines 178-181
ManualRowSteps(row, cols, absKws, fg) ==
  LET r0 == AbsolutePass(row, absKws)
      r1 == HandleGroup(r0, cols, fg, "alcohol")
      r2 == HandleGroup(r1, cols, fg, "cbd_thc")
      r3 == HandleGroup(r2, cols, fg, "nicotine")
      r4 == HandleGroup(r3, cols, fg, "otc_med")
  IN  <<row, r0, r1, r2, r3, r4>>

\* _manual_exclusion_pass, for one row: what the last step leaves
ManualRow(row, cols, absKws, fg) == ManualRowSteps(row, cols, absKws, fg)[Len(StepNames)]

\* ManualRowSteps of every row, from row position i on
RECURSIVE RowStepsFrom(_, _, _, _)
RowStepsFrom(frame, i, absKws, fg) ==
  IF i > Len(frame.rows) THEN <<>>
  ELSE <<ManualRowSteps(frame.rows[i], frame.cols, absKws, fg)>>
         \o RowStepsFrom(frame, i + 1, absKws, fg)

\* the rows as step k left them, from row position i on
RECURSIVE RowsAtStep(_, _, _)
RowsAtStep(rs, k, i) ==
  IF i > Len(rs) THEN <<>> ELSE <<rs[i][k]>> \o RowsAtStep(rs, k, i + 1)

\* the frame after each step of _manual_exclusion_pass
ManualSteps(frame, absKws, fg) ==
  LET rs == RowStepsFrom(frame, 1, absKws, fg)
      at(k) == [cols |-> frame.cols, rows |-> RowsAtStep(rs, k, 1)]
  IN  <<at(1), at(2), at(3), at(4), at(5), at(6)>>

\* _manual_exclusion_pass over the frame
ManualExclusionPass(frame, absKws, fg) ==
  [frame EXCEPT !.rows = [i \in 1..Len(frame.rows) |->
                            ManualRow(frame.rows[i], frame.cols, absKws, fg)]]

(* ------------------------------ maps ----------------------------------- *)
\* a dict keyed by text: a function whose domain is the set of its keys
\* the store that forgets the other keys (m = {k: v} for m[k] = v)
PutAlone(m, k, v) == [x \in {k} |-> v]

Put(m, k, v) == [x \in (DOMAIN m) \cup {k} |-> IF x = k THEN v ELSE m[x]]

\* the merge that keeps what is there (a.setdefault(rkey, rval))
MergeKeepFirst(a, b) == [x \in (DOMAIN a) \cup (DOMAIN b) |-> IF x \in DOMAIN a THEN a[x] ELSE b[x]]

\* for rkey, rval in b.items(): a[rkey] = rval
Merge(a, b) == [x \in (DOMAIN a) \cup (DOMAIN b) |-> IF x \in DOMAIN b THEN b[x] ELSE a[x]]

Min(a, b) == IF a <= b THEN a ELSE b

(* ---------------------------- AI hand-off ------------------------------ *)
\* self.ai_confidence_threshold = 0.70, in hundredths
AiConfidenceThreshold == 70

\* _ambiguous_mask that selects every row
AmbiguousMaskAll(frame) == 1..Len(frame.rows)

\* _ambiguous_mask: the row positions whose decision is blank or "review"
AmbiguousMask(frame) ==
  {i \in 1..Len(frame.rows) : Norm(frame.rows[i].decision) \in {<<>>, <<"r","e","v","i","e","w">>}}

\* str(row.get(col, "")) on df_part[present]: the cell of the column with exactly
\* that name, "" when the frame has none
KeyCell(frame, row, col) ==
  LET at == {i \in 1..Len(frame.cols) : frame.cols[i] = col}
  IN  IF at = {} THEN <<>> ELSE PyStr(row.flags[CHOOSE i \in at : \A j \in at : i <= j])

\* _item_key
ItemKey(frame, row) ==
  Join(<< Norm(row.name), Norm(row.l1), Norm(row.l2),
          KeyCell(frame, row, IS_ALCOHOL), KeyCell(frame, row, IS_CBD),
          KeyCell(frame, row, IS_NICOTINE), KeyCell(frame, row, IS_OTC_MED) >>, <<"|">>)

\* the dict _gather_ai_items builds for one row (the flag values by their str)
AiItem(frame, row) ==
  [ item_name |-> row.name, l1_category |-> row.l1, l2_category |-> row.l2,
    flags |-> << KeyCell(frame, row, IS_ALCOHOL), KeyCell(frame, row, IS_CBD),
                 KeyCell(frame, row, IS_NICOTINE), KeyCell(frame, row, IS_OTC_MED) >> ]

\* _gather_ai_items over df[amb_mask], rows from position k on
RECURSIVE GatherFrom(_, _, _, _)
GatherFrom(frame, mask, c, k) ==
  IF k > Len(frame.rows) THEN <<>>
  ELSE IF k \notin mask \/ ItemKey(frame, frame.rows[k]) \in DOMAIN c
         THEN GatherFrom(frame, mask, c, k + 1)
         ELSE <<AiItem(frame, frame.rows[k])>> \o GatherFrom(frame, mask, c, k + 1)

GatherAiItems(frame, mask, c) == GatherFrom(frame, mask, c, 1)

\* items[: self.max_ai_items] when max_ai_items is non-zero
CapItems(its) == IF MaxAiItems # 0 THEN SubSeq(its, 1, Min(Len(its), MaxAiItems)) ELSE its

\* items[i : i + self.ai_batch_size], i counted from 0
BatchAt(its, i) == SubSeq(its, i + 1, Min(i + AiBatchSize, Len(its)))

(* ------------------------- classifier responses ------------------------ *)
\* What call_ai meets, by kind:
\*   transport_error   chat.completions.create raises; call_ai returns {"error": ...}
\*   not_json          the content is not JSON; json.loads raises inside call_ai,
\*                     which returns {"error": ...}
\*   json_list         the content is a JSON array
\*   json_quoted_list  the content is a JSON string holding a JSON array
\*   no_results        a JSON object without a "results" key
\*   results_not_list  a JSON object whose "results" is a number or null
\*   results           a JSON object whose "results" is the list `results`
\* An entry of the list is [shape |-> "record" | "not_record", missing |-> set of
\* absent keys, item_name, decision, reason |-> text, conf |-> [t, v]] with conf.t
\* "num" (a number, v hundredths), "numstr" (a numeric string) or "bad" (anything
\* float() rejects).
Get(r, field, default) == IF field \in r.missing THEN default ELSE r[field]

\* float(r.get("confidence", 0.0)) succeeds
ConfOk(r) == "confidence" \in r.missing \/ r.conf.t \in {"num", "numstr"}

ConfOf(r) == IF "confidence" \in r.missing THEN 0 ELSE r.conf.v

\* the dict stored for one result entry (lines 271-276)
VerdictOf(r) ==
  [ decision   |-> Lower(Get(r, "decision", <<"r","e","v","i","e","w">>)),
    reason     |-> Get(r, "reason", <<>>),
    confidence |-> ConfOf(r) ]

\* the loop of _ai_review over data["results"], from entry k on
RECURSIVE ReviewLoop(_, _, _, _)
ReviewLoop(rs, k, out, c) ==
  IF k > Len(rs) THEN [raised |-> FALSE, out |-> out, cache |-> c]
  ELSE LET r == rs[k]
       IN  IF r.shape # "record" \/ ~ConfOk(r)
             THEN [raised |-> TRUE, out |-> out, cache |-> c]
             ELSE LET nm == Norm(Get(r, "item_name", <<>>))
                      v  == VerdictOf(r)
                  IN  ReviewLoop(rs, k + 1, Put(out, nm, v), Put(c, nm, v))

\* _ai_review on a non-empty batch, with call_ai: what it returns or that it raises,
\* and the cache it leaves
AiReview(resp, c) ==
  CASE resp.kind \in {"transport_error", "not_json", "no_results", "json_list"}
         -> [raised |-> FALSE, out |-> <<>>, cache |-> c]
    [] resp.kind \in {"json_quoted_list", "results_not_list"}
         -> [raised |-> TRUE, out |-> <<>>, cache |-> c]
    [] resp.kind = "results"
         -> ReviewLoop(resp.results, 1, <<>>, c)

\* the response is well-formed for the expected shape
WellFormed(resp) ==
  /\ resp.kind = "results"
  /\ \A k \in 1..Len(resp.results) :
        resp.results[k].shape = "record" /\ ConfOk(resp.results[k])

\* history of one call: _ai_review returned, for every name among the entries of
\* the response, the verdict of the last entry that carries the name, and nothing
\* else (out[name] = {...} at lines 271-276 runs once per entry, in list order)
LastEntryKept(resp, rv) ==
  (resp.kind = "results" /\ ~rv.raised) =>
    LET rs == resp.results
        nameAt(k) == Norm(Get(rs[k], "item_name", <<>>))
    IN  /\ DOMAIN rv.out = {nameAt(k) : k \in 1..Len(rs)}
        /\ \A k \in 1..Len(rs) :
              (\A j \in (k + 1)..Len(rs) : nameAt(j) # nameAt(k))
                => rv.out[nameAt(k)] = VerdictOf(rs[k])

\* how the external call ended, for the record of calls
Outcome(resp) ==
  IF resp.kind = "transport_error" THEN "transport"
  ELSE IF WellFormed(resp) THEN "ok" ELSE "malformed"

(* --------------------------- reconciliation ---------------------------- *)
\* the gate with "conf > thr" for "conf >= thr"
GateStrict(r) ==
  IF r.confidence > AiConfidenceThreshold
    THEN IF r.decision = <<"e","x","c","l","u","d","e">> THEN [decision |-> AutoExclude, k |-> "ai_exclude"]
         ELSE IF r.decision = <<"a","l","l","o","w">> THEN [decision |-> Allow, k |-> "ai_allow"]
         ELSE [decision |-> Review, k |-> "ai_review"]
    ELSE [decision |-> Review, k |-> "ai_low_confidence"]

\* the gate that marks a decision it does not know as Ignore
GateIgnoreUnknown(r) ==
  IF r.confidence >= AiConfidenceThreshold
    THEN IF r.decision = <<"e","x","c","l","u","d","e">> THEN [decision |-> AutoExclude, k |-> "ai_exclude"]
         ELSE IF r.decision = <<"a","l","l","o","w">> THEN [decision |-> Allow, k |-> "ai_allow"]
         ELSE IF r.decision = <<"r","e","v","i","e","w">> THEN [decision |-> Review, k |-> "ai_review"]
         ELSE [decision |-> <<"I","g","n","o","r","e">>, k |-> "ai_review"]
    ELSE [decision |-> Review, k |-> "ai_low_confidence"]

\* the gate without the confidence test
GateAnyConfidence(r) ==
  IF r.decision = <<"e","x","c","l","u","d","e">> THEN [decision |-> AutoExclude, k |-> "ai_exclude"]
  ELSE IF r.decision = <<"a","l","l","o","w">> THEN [decision |-> Allow, k |-> "ai_allow"]
  ELSE [decision |-> Review, k |-> "ai_review"]

\* the confidence gate (lines 299-311): the decision written and the note's kind
Gate(r) ==
  IF r.confidence >= AiConfidenceThreshold
    THEN IF r.decision = <<"e","x","c","l","u","d","e">> THEN [decision |-> AutoExclude, k |-> "ai_exclude"]
         ELSE IF r.decision = <<"a","l","l","o","w">> THEN [decision |-> Allow, k |-> "ai_allow"]
         ELSE [decision |-> Review, k |-> "ai_review"]
    ELSE [decision |-> Review, k |-> "ai_low_confidence"]

\* the loop body with "issue_col = note" for "issue_col += note"
ApplyRowOverwrite(row, res) ==
  IF Norm(row.name) \notin DOMAIN res THEN row
  ELSE LET r == res[Norm(row.name)]
       IN  IF Strip(row.decision) # <<>>
             THEN [row EXCEPT !.issues = <<AiNote("ai_note", r.reason, r.confidence)>>]
             ELSE [row EXCEPT !.decision = Gate(r).decision,
                              !.issues = <<AiNote(Gate(r).k, r.reason, r.confidence)>>]

\* the loop body that sends a row without a verdict to Review instead of skipping it
ApplyRowNoVerdictReview(row, res) ==
  IF Norm(row.name) \notin DOMAIN res
    THEN IF Strip(row.decision) # <<>> THEN row ELSE [row EXCEPT !.decision = Review]
  ELSE LET r == res[Norm(row.name)]
       IN  IF Strip(row.decision) # <<>>
             THEN [row EXCEPT !.issues = Append(@, AiNote("ai_note", r.reason, r.confidence))]
             ELSE [row EXCEPT !.decision = Gate(r).decision,
                              !.issues = Append(@, AiNote(Gate(r).k, r.reason, r.confidence))]

\* the body of the loop of _apply_ai_decisions for one row of the mask
ApplyRow(row, res) ==
  IF Norm(row.name) \notin DOMAIN res THEN row
  ELSE LET r == res[Norm(row.name)]
       IN  IF Strip(row.decision) # <<>>
             THEN [row EXCEPT !.issues = Append(@, AiNote("ai_note", r.reason, r.confidence))]
             ELSE [row EXCEPT !.decision = Gate(r).decision,
                              !.issues = Append(@, AiNote(Gate(r).k, r.reason, r.confidence))]

\* _apply_ai_decisions writing the decision to every row that carries the name
\* (df.loc[name == nm, decision_col] = ...) instead of to the row at idx
ApplyAiDecisionsByName(frame, mask, res) ==
  LET nameOf(i) == Norm(frame.rows[i].name)
      written(i) == \E j \in mask : /\ nameOf(j) = nameOf(i)
                                    /\ nameOf(j) \in DOMAIN res
                                    /\ Strip(frame.rows[j].decision) = <<>>
  IN  [frame EXCEPT !.rows = [i \in 1..Len(frame.rows) |->
         IF i \in mask THEN ApplyRow(frame.rows[i], res)
         ELSE IF written(i)
           THEN [frame.rows[i] EXCEPT !.decision = Gate(res[nameOf(i)]).decision]
           ELSE frame.rows[i]]]

\* _apply_ai_decisions
ApplyAiDecisions(frame, mask, res) ==
  [frame EXCEPT !.rows = [i \in 1..Len(frame.rows) |->
                            IF i \in mask THEN ApplyRow(frame.rows[i], res)
                            ELSE frame.rows[i]]]

(* ------------------------------ inputs --------------------------------- *)
\* all sequences over S of length 0..n
SeqUpTo(S, n) == UNION {[1..k -> S] : k \in 0..n}

\* the flag columns a frame may carry
FlagSchemas == { <<>>, <<IS_ALCOHOL>> }

\* name, L1 and L2 of the catalog rows
TextPool ==
  { [name |-> <<"A","A">>,  l1 |-> <<>>,   l2 |-> <<>>],
    [name |-> <<"a","a"," ">>, l1 |-> <<"G","u","n">>, l2 |-> <<>>],
    [name |-> <<"G","i","n">>, l1 |-> <<>>,   l2 |-> <<"V","a","p","e">>] }

CellPool == {BoolCell(TRUE), BoolCell(FALSE)}

\* the rows of a frame with flag columns cols, before assess has touched them
RowPool(cols) ==
  { [name |-> x.name, l1 |-> x.l1, l2 |-> x.l2, flags |-> f,
     decision |-> Unresolved, issues |-> <<>>] :
       x \in TextPool, f \in [1..Len(cols) -> CellPool] }

\* n copies of x
RECURSIVE Repeat(_, _)
Repeat(x, n) == IF n = 0 THEN <<>> ELSE <<x>> \o Repeat(x, n - 1)

\* a frame with one ambiguous row more than max_ai_items
OverCapFrame ==
  [cols |-> <<>>,
   rows |-> Repeat([name |-> <<"A","A">>, l1 |-> <<>>, l2 |-> <<>>, flags |-> <<>>,
                    decision |-> Unresolved, issues |-> <<>>], MaxAiItems + 1)]

Frames ==
  UNION { {[cols |-> cols, rows |-> rs] : rs \in SeqUpTo(RowPool(cols), MaxRows) \ {<<>>}} :
          cols \in FlagSchemas }
  \cup {OverCapFrame}

(* --------------------- inputs of the deterministic pass ---------------- *)
\* name, L1 and L2 of the rows the deterministic pass is run on alone
RuleTexts ==
  { [name |-> <<"O","r","i","g","i","n","a","l"," ","R","e","c","i","p","e">>, l1 |-> <<>>, l2 |-> <<>>],
    [name |-> <<"G","i","n"," ","a","n","d"," ","T","o","n","i","c">>, l1 |-> <<>>, l2 |-> <<>>],
    [name |-> <<"A","A"," ","B","a","t","t","e","r","i","e","s">>, l1 |-> <<>>, l2 |-> <<>>],
    [name |-> <<"N","i","c","o","t","i","n","e"," ","G","u","m">>, l1 |-> <<>>, l2 |-> <<>>],
    [name |-> <<"C","o","r","o","n","a"," ","6","p","k">>, l1 |-> <<"B","e","e","r">>, l2 |-> <<>>],
    [name |-> <<"T","o","n","i","c">>, l1 |-> <<>>, l2 |-> <<"G","I","N">>],
    [name |-> <<"G","i","n"," ","v","a","p","e">>, l1 |-> <<"G","u","n">>, l2 |-> <<>>],
    [name |-> <<"g","i","n","_","f","i","z","z">>, l1 |-> <<>>, l2 |-> <<>>],
    [name |-> <<"C","h","e","f"," ","K","n","i","f","e">>, l1 |-> <<>>, l2 |-> <<>>] }

\* the flag columns of those frames: none, the canonical alcohol column, the same
\* in lower case, a synonym of it, a column of another group, both columns
RuleSchemas ==
  { <<>>, <<IS_ALCOHOL>>, <<<<"i","s","_","a","l","c","o","h","o","l">>>>, <<<<"A","g","e","_","R","e","s","t","r","i","c","t","e","d">>>>, <<IS_NICOTINE>>, <<IS_ALCOHOL, IS_NICOTINE>> }

NanCell == [t |-> "nan", s |-> <<"n","a","n">>]

IntCell(s) == [t |-> "int", s |-> s]

FloatCell(s) == [t |-> "float", s |-> s]

StrCell(s) == [t |-> "str", s |-> s]

\* what a flag cell may hold: booleans, the numbers 1, 0 and 2 as integers and as
\* floats, strings, and a missing value
RuleCells ==
  { BoolCell(TRUE), BoolCell(FALSE), NanCell,
    IntCell(<<"1">>), IntCell(<<"0">>), IntCell(<<"2">>),
    FloatCell(<<"1",".","0">>), FloatCell(<<"0",".","0">>),
    StrCell(<<"1">>), StrCell(<<"t","r","u","e">>), StrCell(<<"T","R","U","E">>), StrCell(<<"Y","e","s">>), StrCell(<<"y">>),
    StrCell(<<"T">>), StrCell(<<"0">>), StrCell(<<"f","a","l","s","e">>), StrCell(<<"N","o">>), StrCell(<<>>),
    StrCell(<<"n","u","l","l">>) }

\* the cells of a frame with one flag column are drawn from RuleCells, those of a
\* frame with more columns from the booleans
RuleRows(cols) ==
  { [name |-> x.name, l1 |-> x.l1, l2 |-> x.l2, flags |-> f,
     decision |-> Unresolved, issues |-> <<>>] :
       x \in RuleTexts,
       f \in [1..Len(cols) -> IF Len(cols) = 1 THEN RuleCells ELSE CellPool] }

\* one-row frames of every schema, and the two-row frames without flag columns
RuleFrames ==
  UNION { {[cols |-> cols, rows |-> <<r>>] : r \in RuleRows(cols)} : cols \in RuleSchemas }
  \cup {[cols |-> <<>>, rows |-> <<r1, r2>>] : r1, r2 \in RuleRows(<<>>)}

\* what the classifier may answer for a batch
DecisionPool == {<<"e","x","c","l","u","d","e">>, <<"A","l","l","o","w">>, <<"r","e","v","i","e","w">>}
ConfPool == {69, 70}
ReasonText == <<"o","k">>

\* a name the classifier was not given: the cache key of the row "AA" of a frame
\* without flag columns
StrayName == <<"a","a","|","|","|","|","|","|">>

RespNames(batch) == {batch[k].item_name : k \in 1..Len(batch)}

Entry(shape, missing, nm, d, ct, cv) ==
  [shape |-> shape, missing |-> missing, item_name |-> nm, decision |-> d,
   reason |-> ReasonText, conf |-> [t |-> ct, v |-> cv]]

EntryPool(batch) ==
  {Entry("record", {}, nm, d, "num", c) : nm \in RespNames(batch), d \in DecisionPool, c \in ConfPool}
  \cup {Entry("record", {}, StrayName, <<"A","l","l","o","w">>, "num", 70)}
  \cup {Entry("record", {}, batch[1].item_name, <<"e","x","c","l","u","d","e">>, "bad", 0)}
  \cup {Entry("not_record", {}, <<>>, <<>>, "bad", 0)}
  \cup {Entry("record", {"decision"}, batch[1].item_name, <<>>, "num", 70)}
  \cup {Entry("record", {"confidence"}, batch[1].item_name, <<"e","x","c","l","u","d","e">>, "num", 0)}
  \cup {Entry("record", {}, batch[1].item_name, <<"m","a","y","b","e">>, "num", 70)}

Responses(batch) ==
  {[kind |-> k, results |-> <<>>] :
     k \in {"transport_error", "not_json", "json_list", "json_quoted_list",
            "no_results", "results_not_list"}}
  \cup {[kind |-> "results", results |-> rs] : rs \in SeqUpTo(EntryPool(batch), MaxResults)}

(* ---------------------------- state machine ---------------------------- *)
VARIABLES
  guidelines,         \* self.guidelines
  absolute_keywords,  \* self.absolute_keywords
  flagged_groups,     \* self.flagged_groups
  cache,              \* self.cache
  df,                 \* the caller's DataFrame, mutated in place by assess
  pc,                 \* "idle", "ai" (between two batches), "done" (assess returned),
                      \* "raised" (assess left by an exception)
  amb_mask,           \* amb_mask of the running assess
  items,              \* items of the running assess, after the cap
  pos,                \* i of the batch loop
  results,            \* results of the running assess
  api_key,            \* history: whether the running assess was given an api_key
  steps,              \* history: df after each step of the deterministic pass
  det,                \* history: df as the deterministic pass left it
  first,              \* history: when the running assess was handed the frame an
                      \* earlier assess returned, what the deterministic pass of
                      \* that earlier assess left; else the empty frame
  cache0,             \* history: the cache when assess selected its items
  calls,              \* history: the batches sent in this run, how each call ended,
                      \* the cache before and after it and the entries it stored
  runs,               \* history: assess calls made on this instance
  ncalls              \* history: classifier calls made by this instance

vars == <<guidelines, absolute_keywords, flagged_groups, cache, df, pc, amb_mask,
          items, pos, results, api_key, steps, det, first, cache0, calls, runs, ncalls>>

\* Agent.__init__
Init ==
  /\ \E doc \in PolicyDocs :
       /\ guidelines = LoadGuidelines(doc)
       /\ absolute_keywords = BuildAbsoluteKeywords(LoadGuidelines(doc))
       /\ flagged_groups = WithAlcoholDefaults(BuildFlaggedGroups(LoadGuidelines(doc)))
  /\ cache = <<>>
  /\ df = [cols |-> <<>>, rows |-> <<>>]
  /\ pc = "idle"
  /\ amb_mask = {}
  /\ items = <<>>
  /\ pos = 0
  /\ results = <<>>
  /\ api_key = FALSE
  /\ steps = <<>>
  /\ det = [cols |-> <<>>, rows |-> <<>>]
  /\ first = [cols |-> <<>>, rows |-> <<>>]
  /\ cache0 = <<>>
  /\ calls = <<>>
  /\ runs = 0
  /\ ncalls = 0

\* the classifier calls a list of items takes: one per batch
NumBatches(its) == (Len(its) + AiBatchSize - 1) \div AiBatchSize

\* assess up to its first external call: the columns, the deterministic pass, the
\* mask and the items; it returns at once when there is nothing to send
Assess(frame, has_key) ==
  /\ pc = "idle"
  /\ runs < MaxRuns
  /\ \E st \in {ManualSteps(frame, absolute_keywords, flagged_groups)} :
     \E d \in {st[Len(st)]} :
     \E msk \in {IF has_key THEN AmbiguousMask(d) ELSE {}} :
     \E its \in {CapItems(GatherAiItems(d, msk, cache))} :
       /\ ncalls + NumBatches(its) <= MaxCalls
       /\ steps' = st
       /\ det' = d
       /\ amb_mask' = msk
       /\ items' = its
       /\ IF its # <<>>
            THEN df' = d /\ pc' = "ai"
            ELSE df' = ApplyAiDecisions(d, msk, <<>>) /\ pc' = "done"
  /\ api_key' = has_key
  /\ first' = [cols |-> <<>>, rows |-> <<>>]
  /\ pos' = 0
  /\ results' = <<>>
  /\ cache0' = cache
  /\ calls' = <<>>
  /\ runs' = runs + 1
  /\ UNCHANGED <<guidelines, absolute_keywords, flagged_groups, cache, ncalls>>

\* one turn of the batch loop: _ai_review on the next batch; after the last batch
\* _apply_ai_decisions and the return
AiBatch(resp) ==
  /\ pc = "ai"
  /\ \E rv \in {AiReview(resp, cache)} :
       /\ cache' = rv.cache
       /\ ncalls' = ncalls + 1
       /\ calls' = Append(calls, [batch |-> BatchAt(items, pos), outcome |-> Outcome(resp),
                                  cache_before |-> cache, cache_after |-> rv.cache,
                                  out |-> rv.out,
                                  last_entry_kept |-> LastEntryKept(resp, rv)])
       /\ IF rv.raised
            THEN pc' = "raised" /\ UNCHANGED <<df, results, pos>>
            ELSE /\ results' = Merge(results, rv.out)
                 /\ pos' = pos + AiBatchSize
                 /\ IF pos + AiBatchSize < Len(items)
                      THEN pc' = "ai" /\ UNCHANGED df
                      ELSE pc' = "done"
                           /\ df' = ApplyAiDecisions(df, amb_mask, Merge(results, rv.out))
  /\ UNCHANGED <<guidelines, absolute_keywords, flagged_groups, amb_mask, items,
                 api_key, steps, det, first, cache0, runs>>

\* the caller is through with the frame (run_exclusion_agent.main after assess, or
\* its exception handler); the engine instance and its cache live on
Release ==
  /\ pc \in {"done", "raised"}
  /\ pc' = "idle"
  /\ df' = [cols |-> <<>>, rows |-> <<>>]
  /\ api_key' = FALSE
  /\ steps' = <<>>
  /\ det' = [cols |-> <<>>, rows |-> <<>>]
  /\ first' = [cols |-> <<>>, rows |-> <<>>]
  /\ amb_mask' = {}
  /\ items' = <<>>
  /\ pos' = 0
  /\ results' = <<>>
  /\ calls' = <<>>
  /\ cache0' = cache
  /\ UNCHANGED <<guidelines, absolute_keywords, flagged_groups, cache, runs, ncalls>>

\* the next batch goes out and the classifier answers
AiBatchStep ==
  /\ pc = "ai"
  /\ \E resp \in Responses(BatchAt(items, pos)) : AiBatch(resp)

Next ==
  \/ \E frame \in Frames, has_key \in BOOLEAN : Assess(frame, has_key)
  \/ AiBatchStep
  \/ Release

Spec == Init /\ [][Next]_vars

\* assess, without an api_key, on the frame the previous assess returned: the
\* issue and decision columns exist (lines 82-85 do nothing) and
\* _manual_exclusion_pass runs over its own output
AssessAgain ==
  /\ pc = "done"
  /\ ~api_key
  /\ runs < MaxRuns
  /\ \E st \in {ManualSteps(df, absolute_keywords, flagged_groups)} :
       /\ steps' = st
       /\ det' = st[Len(st)]
       /\ df' = ApplyAiDecisions(st[Len(st)], {}, <<>>)
  /\ first' = det
  /\ pc' = "done"
  /\ amb_mask' = {}
  /\ items' = <<>>
  /\ api_key' = FALSE
  /\ pos' = 0
  /\ results' = <<>>
  /\ cache0' = cache
  /\ calls' = <<>>
  /\ runs' = runs + 1
  /\ UNCHANGED <<guidelines, absolute_keywords, flagged_groups, cache, ncalls>>

\* assess without an api_key: the deterministic pass alone
NextRules ==
  \/ \E frame \in RuleFrames : Assess(frame, FALSE)
  \/ AssessAgain
  \/ Release

\* Agent.__init__ with any of the policy documents of RulePolicyDocs
InitRules ==
  /\ \E doc \in RulePolicyDocs :
       /\ guidelines = LoadGuidelines(doc)
       /\ absolute_keywords = BuildAbsoluteKeywords(LoadGuidelines(doc))
       /\ flagged_groups = WithAlcoholDefaults(BuildFlaggedGroups(LoadGuidelines(doc)))
  /\ cache = <<>>
  /\ df = [cols |-> <<>>, rows |-> <<>>]
  /\ pc = "idle"
  /\ amb_mask = {}
  /\ items = <<>>
  /\ pos = 0
  /\ results = <<>>
  /\ api_key = FALSE
  /\ steps = <<>>
  /\ det = [cols |-> <<>>, rows |-> <<>>]
  /\ first = [cols |-> <<>>, rows |-> <<>>]
  /\ cache0 = <<>>
  /\ calls = <<>>
  /\ runs = 0
  /\ ncalls = 0

SpecRules == InitRules /\ [][NextRules]_vars

(* ============================ properties =============================== *)
RowIds == 1..Len(det.rows)

\* the verdict the merged results of the run hold under the row's normalized name
HasVerdict(i) == Norm(det.rows[i].name) \in DOMAIN results

VerdictFor(i) == results[Norm(det.rows[i].name)]

\* C1: an item the deterministic pass left as Auto Exclude or Restricted
\* (Compliant) has that same Decision at every later point of assess, whatever
\* the classifier answered.
C1_FinalizedDecisionKept ==
  \A i \in RowIds :
    det.rows[i].decision \in {AutoExclude, RestrictedCompliant}
      => df.rows[i].decision = det.rows[i].decision

\* assess has returned after an AI phase that produced a confident verdict under
\* the name of a finalized item, and applied it to another row of that name
C1_Witness ==
  /\ pc = "done"
  /\ \E i, j \in RowIds :
       /\ det.rows[i].decision \in {AutoExclude, RestrictedCompliant}
       /\ HasVerdict(i)
       /\ VerdictFor(i).confidence >= AiConfidenceThreshold
       /\ VerdictFor(i).decision = <<"a","l","l","o","w">>
       /\ Norm(det.rows[j].name) = Norm(det.rows[i].name)
       /\ df.rows[j].decision = Allow

\* C2: an item that is Review after the deterministic pass and gets a verdict with
\* confidence >= threshold is moved to Auto Exclude on exclude, to Allow on allow,
\* and stays Review on review.
C2_ReviewUpgraded ==
  pc = "done" =>
    \A i \in amb_mask :
      (/\ det.rows[i].decision = Review
       /\ HasVerdict(i)
       /\ VerdictFor(i).confidence >= AiConfidenceThreshold) =>
        /\ VerdictFor(i).decision = <<"e","x","c","l","u","d","e">> => df.rows[i].decision = AutoExclude
        /\ VerdictFor(i).decision = <<"a","l","l","o","w">> => df.rows[i].decision = Allow
        /\ VerdictFor(i).decision = <<"r","e","v","i","e","w">> => df.rows[i].decision = Review

\* C3: for an item that is Unresolved when the verdict is applied, confidence >=
\* threshold maps exclude to Auto Exclude, allow to Allow and review to Review,
\* and confidence < threshold gives Review whatever the verdict.
C3_ConfidenceGate ==
  pc = "done" =>
    \A i \in amb_mask :
      (det.rows[i].decision = Unresolved /\ HasVerdict(i)) =>
        LET v == VerdictFor(i)
            d == df.rows[i].decision
        IN  /\ (v.confidence >= AiConfidenceThreshold /\ v.decision = <<"e","x","c","l","u","d","e">>) => d = AutoExclude
            /\ (v.confidence >= AiConfidenceThreshold /\ v.decision = <<"a","l","l","o","w">>) => d = Allow
            /\ (v.confidence >= AiConfidenceThreshold /\ v.decision = <<"r","e","v","i","e","w">>) => d = Review
            /\ v.confidence < AiConfidenceThreshold => d = Review

\* an Unresolved item took Auto Exclude from an exclude verdict whose confidence
\* equals the threshold
C3_Witness ==
  /\ pc = "done"
  /\ \E i \in amb_mask :
       /\ det.rows[i].decision = Unresolved
       /\ HasVerdict(i)
       /\ VerdictFor(i).decision = <<"e","x","c","l","u","d","e">>
       /\ VerdictFor(i).confidence = AiConfidenceThreshold
       /\ df.rows[i].decision = AutoExclude

\* the request items sent to the classifier in this run that equal it
SentCount(it) ==
  Cardinality({kp \in UNION {{<<k, p>> : p \in 1..Len(calls[k].batch)} : k \in 1..Len(calls)} :
                 calls[kp[1]].batch[kp[2]] = it})

\* C4: two ambiguous items of one run with identical name, category path and flag
\* values cause at most one request item over all batches of the run.
C4_IdenticalItemsSentOnce ==
  \A i, j \in amb_mask :
    (i < j /\ det.rows[i] = det.rows[j]) => SentCount(AiItem(det, det.rows[i])) <= 1

\* C5: an ambiguous item whose cache key is in the cache when the items are
\* selected is not sent, and the cached verdict is applied to its Decision through
\* the confidence gate in that same run.
C5_CachedVerdictApplied ==
  pc = "done" =>
    \A i \in amb_mask :
      ItemKey(det, det.rows[i]) \in DOMAIN cache0 =>
        /\ SentCount(AiItem(det, det.rows[i])) = 0
        /\ df.rows[i].decision = Gate(cache0[ItemKey(det, det.rows[i])]).decision

\* C6: once a verdict has been applied to an item, the cache holds an entry under
\* the item's cache key as _item_key computes it.
C6_AppliedVerdictCachedUnderKey ==
  pc = "done" =>
    \A i \in amb_mask : HasVerdict(i) => ItemKey(det, det.rows[i]) \in DOMAIN cache

\* C7: a response that is not well-formed for the expected shape leaves the cache
\* as it was before the call: no verdict of that batch is stored.
C7_MalformedBatchDiscarded ==
  \A k \in 1..Len(calls) :
    calls[k].outcome = "malformed" => calls[k].cache_after = calls[k].cache_before

\* C8: whatever the classifier answers for a batch, assess is not left by an
\* exception.
C8_AssessReturns == pc # "raised"

\* the row's request item went out in batch k and in no other batch of the run
OnlyInBatch(i, k) ==
  /\ \E p \in 1..Len(calls[k].batch) : calls[k].batch[p] = AiItem(det, det.rows[i])
  /\ \A k2 \in 1..Len(calls) : \A p \in 1..Len(calls[k2].batch) :
       calls[k2].batch[p] = AiItem(det, det.rows[i]) => k2 = k

\* C9: when the call for a batch fails at transport level, the items of that batch
\* have their Decision and IssueLog of before the AI phase when assess returns.
C9_FailedBatchItemsUntouched ==
  pc = "done" =>
    \A k \in 1..Len(calls) :
      calls[k].outcome = "transport" =>
        \A i \in amb_mask : OnlyInBatch(i, k) => df.rows[i] = det.rows[i]

\* every keyword _build_absolute_keywords knows
BuiltinAbsoluteKeywords ==
  GiftCardKeywords \cup {AbsoluteMarkers[i] : i \in 1..Len(AbsoluteMarkers)}
  \cup {KratomKw, HhcKw} \cup PrepaidPhoneKeywords \cup PressKeywords

\* C10: with the policy document missing, unparseable or empty, the deterministic
\* pass still gives Auto Exclude to an item that matches a built-in absolute keyword.
C10_DefaultsExcludeAbsolute ==
  guidelines = <<>> =>
    \A i \in RowIds :
      KwHit(det.rows[i], BuiltinAbsoluteKeywords) => det.rows[i].decision = AutoExclude

\* the row carries a note of kind k for group g
HasNote(row, k, g) == \E n \in 1..Len(row.issues) : row.issues[n].k = k /\ row.issues[n].g = g

\* b is a with exactly one note appended and nothing else changed
OneNoteAppended(a, b) ==
  /\ Len(b.issues) = Len(a.issues) + 1
  /\ b = [a EXCEPT !.issues = Append(@, b.issues[Len(b.issues)])]

\* the steps of the deterministic pass that changed the row's Decision
DecisionWrites(i) ==
  {k \in 1..(Len(steps) - 1) : steps[k + 1].rows[i].decision # steps[k].rows[i].decision}

\* C11: in the deterministic pass the Decision of an item is written at most once:
\* a step that finds a Decision set by the absolute pass or by an earlier group
\* leaves it as it is, and when its keywords match it only appends its audit note.
C11_DecisionWrittenOnce ==
  \A i \in RowIds :
    /\ Cardinality(DecisionWrites(i)) <= 1
    /\ \A k \in 1..(Len(steps) - 1) :
         LET a == steps[k].rows[i]
             b == steps[k + 1].rows[i]
         IN  a.decision # Unresolved =>
               /\ b.decision = a.decision
               /\ b = a \/ OneNoteAppended(a, b)

\* an item the absolute pass set to Auto Exclude also matched the alcohol and the
\* nicotine keywords: both groups appended their note and the Decision stayed
C11_Witness ==
  /\ pc = "done"
  /\ \E i \in RowIds :
       /\ steps[1].rows[i].decision = Unresolved
       /\ steps[2].rows[i].decision = AutoExclude
       /\ OneNoteAppended(steps[2].rows[i], steps[3].rows[i])
       /\ OneNoteAppended(steps[4].rows[i], steps[5].rows[i])
       /\ det.rows[i].decision = AutoExclude
       /\ Len(det.rows[i].issues) = 3

\* a is a prefix of b
IsPrefix(a, b) == Len(a) <= Len(b) /\ SubSeq(b, 1, Len(a)) = a

\* C12: IssueLog is append-only: over the absolute pass, each restricted-group
\* pass and the application of the AI verdicts, an item's IssueLog before the step
\* is a prefix of its IssueLog after the step.
C12_IssueLogAppendOnly ==
  \A i \in RowIds :
    /\ \A k \in 1..(Len(steps) - 1) :
         IsPrefix(steps[k].rows[i].issues, steps[k + 1].rows[i].issues)
    /\ steps[Len(steps)].rows[i].issues = det.rows[i].issues
    /\ IsPrefix(det.rows[i].issues, df.rows[i].issues)

\* an item got a note from two restricted-group passes and then one from an
\* applied AI verdict
C12_Witness ==
  /\ pc = "done"
  /\ \E i \in RowIds :
       /\ Len(steps[3].rows[i].issues) = 1
       /\ Len(det.rows[i].issues) = 2
       /\ Len(df.rows[i].issues) = 3
       /\ df.rows[i].issues[3].k = "ai_note"

\* the positions in cols of the columns that carry the group's flag: the canonical
\* name or one of its synonyms, in any case
FlagColumnsPresent(cols, g) ==
  {c \in 1..Len(cols) : Upper(cols[c]) \in {FlagColumns(g)} \cup Synonyms(FlagColumns(g))}

\* C13: an item that is Unresolved when the alcohol group is handled and matches an
\* alcohol keyword gets Restricted (Compliant) when the cell of its alcohol flag
\* coerces to true, and Review with the "missing merchant flag" note when the cell
\* coerces to false (a false or a missing value); the Decision is the one assess
\* returns without an AI phase.  With no alcohol column in the frame the item gets
\* Review as well.
C13_AlcoholFlagDecides ==
  \A i \in RowIds :
    LET before == steps[2].rows[i]
        after  == steps[3].rows[i]
        at     == FlagColumnsPresent(det.cols, "alcohol")
    IN  (before.decision = Unresolved /\ KwHit(steps[1].rows[i], AlcoholDefaults)) =>
          /\ \A c \in at :
                IF BoolFromCell(before.flags[c])
                  THEN after.decision = RestrictedCompliant
                  ELSE after.decision = Review /\ HasNote(after, "missing_flag", "alcohol")
          /\ at = {} => after.decision = Review
          /\ df.rows[i].decision = after.decision

\* an item of category "Beer" whose alcohol flag is true came out Restricted
\* (Compliant)
C13_Witness ==
  /\ pc = "done"
  /\ \E i \in RowIds :
       /\ det.rows[i].l1 = <<"B","e","e","r">>
       /\ det.cols = <<IS_ALCOHOL>>
       /\ det.rows[i].flags[1] = BoolCell(TRUE)
       /\ steps[2].rows[i].decision = Unresolved
       /\ df.rows[i].decision = RestrictedCompliant

\* C14: when the frame has no flag column for a restricted group, neither the
\* canonical name nor a synonym, every item that matches a keyword of the group
\* gets the "flag column not found" note and, if it was Unresolved, Review; the
\* "missing merchant flag" note is written only when the column exists.
C14_NoFlagColumnNote ==
  \A i \in RowIds : \A n \in 1..Len(Groups) :
    LET g      == Groups[n]
        before == steps[n + 1].rows[i]
        after  == steps[n + 2].rows[i]
        absent == FlagColumnsPresent(det.cols, g) = {}
    IN  /\ (absent /\ KwHit(steps[1].rows[i], flagged_groups[g])) =>
              /\ after.issues = Append(before.issues, Note("no_flag_col", g))
              /\ before.decision = Unresolved => after.decision = Review
              /\ after.decision = IF before.decision = Unresolved THEN Review ELSE before.decision
        /\ HasNote(det.rows[i], "missing_flag", g) => ~absent

\* "Nicotine Gum" in a frame without any nicotine flag column came out Review with
\* the "flag column not found" note of the nicotine group
C14_Witness ==
  /\ pc = "done"
  /\ \E i \in RowIds :
       /\ det.rows[i].name = <<"N","i","c","o","t","i","n","e"," ","G","u","m">>
       /\ FlagColumnsPresent(det.cols, "nicotine") = {}
       /\ det.rows[i].issues = <<Note("no_flag_col", "nicotine")>>
       /\ df.rows[i].decision = Review

\* the coercion the claim describes: booleans pass through, the numbers 1 and 0
\* give true and false as integers and as floats, a string gives true exactly when
\* it equals one of the tokens in some case, everything else gives false
ReferenceCoercion(cell) ==
  CASE cell.t = "bool"             -> cell = BoolCell(TRUE)
    [] cell.t \in {"int", "float"} -> cell.s \in {<<"1">>, <<"1",".","0">>}
    [] cell.t = "str"              -> Lower(cell.s) \in TruthyTokens
    [] OTHER                       -> FALSE

\* C15: the flag coercion the deterministic pass applies equals the reference
\* function: an item that matches an alcohol keyword in a frame with an alcohol
\* flag column is taken as compliant exactly when the reference function maps its
\* cell to true.
C15_CoercionIsReference ==
  \A i \in RowIds : \A c \in FlagColumnsPresent(det.cols, "alcohol") :
    /\ BoolFromCell(det.rows[i].flags[c]) = ReferenceCoercion(det.rows[i].flags[c])
    /\ KwHit(steps[1].rows[i], AlcoholDefaults) =>
         (HasNote(det.rows[i], "compliant", "alcohol")
            <=> ReferenceCoercion(det.rows[i].flags[c]))

\* the keyword occurs in the text, in any case, with no letter, digit or underscore
\* right before or right after the occurrence
OccursAsWord(text, kw) ==
  \E p \in 1..(Len(text) - Len(kw) + 1) :
    /\ Lower(SubSeq(text, p, p + Len(kw) - 1)) = Lower(kw)
    /\ p = 1 \/ text[p - 1] \notin WordChars
    /\ p + Len(kw) - 1 = Len(text) \/ text[p + Len(kw)] \notin WordChars

\* some text field of the row (category levels, item name) holds a keyword of the
\* set as a word or phrase
FieldsHoldWord(row, kws) ==
  \E kw \in kws : \E text \in {row.l1, row.l2, row.name} : OccursAsWord(text, kw)

\* C16: keyword matching is case-insensitive and whole-word/phrase only: the
\* deterministic pass takes an item as matching a keyword set (it writes that
\* set's note) exactly when one of the item's text fields holds a keyword of the
\* set delimited by word boundaries; "gin" does not match "Original Recipe" and
\* does match "Gin and Tonic".
C16_WholeWordMatching ==
  \A i \in RowIds :
    /\ (\E n \in 1..Len(det.rows[i].issues) : det.rows[i].issues[n].k = "abs")
          <=> FieldsHoldWord(steps[1].rows[i], absolute_keywords)
    /\ \A g \in DOMAIN flagged_groups :
          (\E n \in 1..Len(det.rows[i].issues) : det.rows[i].issues[n].g = g)
            <=> FieldsHoldWord(steps[1].rows[i], flagged_groups[g])
    /\ det.rows[i].name = <<"O","r","i","g","i","n","a","l"," ","R","e","c","i","p","e">>
          => det.rows[i].issues = <<>>

\* one frame held "Original Recipe", which no keyword set matched, and "Gin and
\* Tonic", which the alcohol set matched
C16_Witness ==
  /\ pc = "done"
  /\ \E i, j \in RowIds :
       /\ det.rows[i].name = <<"O","r","i","g","i","n","a","l"," ","R","e","c","i","p","e">>
       /\ det.rows[i].issues = <<>>
       /\ det.rows[i].decision = Unresolved
       /\ det.rows[j].name = <<"G","i","n"," ","a","n","d"," ","T","o","n","i","c">>
       /\ det.rows[j].issues = <<Note("no_flag_col", "alcohol")>>

\* the run of assess is over: it returned or an exception left it
RunOver == pc \in {"done", "raised"}

\* the rows _gather_ai_items appends an item for, in the order of the items
RECURSIVE SelectedFrom(_)
SelectedFrom(k) ==
  IF k > Len(det.rows) THEN <<>>
  ELSE IF k \notin amb_mask \/ ItemKey(det, det.rows[k]) \in DOMAIN cache0
         THEN SelectedFrom(k + 1)
         ELSE <<k>> \o SelectedFrom(k + 1)

\* the classifier calls of the run whose batch holds the item of the p-th selected
\* row: call k carries the items at positions (k-1)*size+1 .. (k-1)*size+Len(batch)
CallsHolding(p) ==
  {k \in 1..Len(calls) :
     \E q \in 1..Len(calls[k].batch) :
       /\ (k - 1) * AiBatchSize + q = p
       /\ calls[k].batch[q] = AiItem(det, det.rows[SelectedFrom(1)[p]])}

\* C17: an item that matches no absolute and no restricted-group keyword is
\* Unresolved after the deterministic pass, and in a run with an api_key, when its
\* cache key is not cached and it lies within max_ai_items, it is in exactly one
\* batch sent to the classifier by the time the run is over.
C17_UnmatchedItemForwarded ==
  \A i \in RowIds :
    (/\ ~KwHit(steps[1].rows[i], absolute_keywords)
     /\ \A g \in DOMAIN flagged_groups : ~KwHit(steps[1].rows[i], flagged_groups[g])) =>
      /\ det.rows[i].decision = Unresolved
      /\ (RunOver /\ api_key /\ ItemKey(det, det.rows[i]) \notin DOMAIN cache0) =>
            \A p \in 1..Min(Len(SelectedFrom(1)), MaxAiItems) :
              SelectedFrom(1)[p] = i => Cardinality(CallsHolding(p)) = 1

\* the batches the run sent, one after the other
RECURSIVE SentFrom(_)
SentFrom(k) == IF k > Len(calls) THEN <<>> ELSE calls[k].batch \o SentFrom(k + 1)

\* C18: in one run the items sent over all batches number at most max_ai_items,
\* every batch holds at most ai_batch_size items, and the batches are consecutive
\* disjoint slices that together are exactly the capped list of selected items.
C18_BatchesCoverCappedList ==
  /\ Len(SentFrom(1)) <= MaxAiItems
  /\ \A k \in 1..Len(calls) : Len(calls[k].batch) <= AiBatchSize
  /\ SentFrom(1) = SubSeq(items, 1, Len(SentFrom(1)))
  /\ RunOver => SentFrom(1) = CapItems(GatherAiItems(det, amb_mask, cache0))

\* C19: when no item is Unresolved or Review after the deterministic pass, the AI
\* phase is skipped: no classifier call is made, the cache is as it was, and assess
\* has returned the deterministic decisions.
C19_NothingAmbiguousSkipsAi ==
  (/\ steps # <<>>
   /\ \A i \in RowIds : Lower(Strip(det.rows[i].decision)) \notin {<<>>, Lower(Review)}) =>
    /\ pc = "done"
    /\ calls = <<>>
    /\ cache = cache0
    /\ df = det

\* assess was given an api_key and a frame whose items the deterministic pass
\* finalized all, on an engine whose cache already held a verdict, and returned
C19_Witness ==
  /\ pc = "done"
  /\ api_key
  /\ RowIds # {}
  /\ \A i \in RowIds : det.rows[i].decision \in {AutoExclude, RestrictedCompliant}
  /\ \E i \in RowIds : det.rows[i].decision = RestrictedCompliant
  /\ cache # <<>>
  /\ df = det

\* C20: when the merged verdicts hold one under the name of an item the
\* deterministic pass finalized as Auto Exclude or Restricted (Compliant), assess
\* returns that item with an "AI note" appended to its IssueLog and its Decision
\* unchanged.
C20_FinalizedItemGetsAiNote ==
  pc = "done" =>
    \A i \in RowIds :
      (det.rows[i].decision \in {AutoExclude, RestrictedCompliant} /\ HasVerdict(i)) =>
        /\ df.rows[i].decision = det.rows[i].decision
        /\ df.rows[i].issues =
             Append(det.rows[i].issues,
                    AiNote("ai_note", VerdictFor(i).reason, VerdictFor(i).confidence))

\* C21: a structured policy entry determines its rule directly: the keywords of an
\* entry with absolute=true are keywords of the absolute set, so that an item
\* matching one is Auto Exclude, and the keywords of an entry with a flag column
\* are the keyword set of that restricted group in place of the built-in defaults.
C21_StructuredEntryIsRule ==
  guidelines = LoadGuidelines(StructuredDoc) =>
    /\ <<"k","n","i","f","e">> \in absolute_keywords
    /\ flagged_groups["alcohol"] = {<<"s","a","k","e">>}
    /\ \A i \in RowIds :
         KwHit(steps[1].rows[i], {<<"k","n","i","f","e">>}) => det.rows[i].decision = AutoExclude

\* C22: the final Decisions and the cache of a run do not depend on the order in
\* which its batches are processed: a run of two batches ends with the frame and
\* the cache that merging the same two per-batch results in the other order gives.
C22_BatchOrderIrrelevant ==
  (pc = "done" /\ Len(calls) = 2) =>
    /\ df = ApplyAiDecisions(det, amb_mask, Merge(Merge(<<>>, calls[2].out), calls[1].out))
    /\ cache = Merge(Merge(cache0, calls[2].out), calls[1].out)

\* C23: when a run with an api_key is over, the classifier has been called exactly
\* once per batch: the calls number ceil(min(selected items, max_ai_items) /
\* ai_batch_size), and the k-th call carried the k-th batch, however calls ended.
C23_OneCallPerBatch ==
  (RunOver /\ api_key) =>
    /\ Len(calls) = (Min(Len(SelectedFrom(1)), MaxAiItems) + AiBatchSize - 1) \div AiBatchSize
    /\ \A k \in 1..Len(calls) : calls[k].batch = BatchAt(items, (k - 1) * AiBatchSize)

\* C24: the cache is empty when the instance is constructed, and no step of any
\* assess call removes a key from it.
C24_CacheGrowsOnly ==
  /\ cache = <<>>
  /\ [][DOMAIN cache \subseteq DOMAIN cache']_vars

\* a second run on the instance started with a non-empty cache and added a key
C24_Witness ==
  /\ runs = 2
  /\ RunOver
  /\ cache0 # <<>>
  /\ DOMAIN cache0 # DOMAIN cache
  /\ DOMAIN cache0 \subseteq DOMAIN cache

\* a call of this run returned, under the row's normalized name, the decision d
\* with confidence >= threshold
ReturnedConfident(i, d) ==
  \E k \in 1..Len(calls) :
    /\ Norm(det.rows[i].name) \in DOMAIN calls[k].out
    /\ calls[k].out[Norm(det.rows[i].name)].decision = d
    /\ calls[k].out[Norm(det.rows[i].name)].confidence >= AiConfidenceThreshold

RowsSent ==
  {SelectedFrom(1)[p] : p \in 1..Min(Len(SelectedFrom(1)), Len(SentFrom(1)))}

\* C26: the AI phase changes the Decision or the IssueLog of a row only if the
\* item of that row was in a request of this run; rows beyond the cap or skipped
\* as cached keep what the deterministic pass left.
C26_OnlySentItemsModified ==
  \A i \in 1..Len(df.rows) :
    df.rows[i] # det.rows[i] => i \in RowsSent

\* the calls of this run whose stored entries hold the name
CallsNaming(nm) == {k \in 1..Len(calls) : nm \in DOMAIN calls[k].out}

LastCallNaming(nm) == CHOOSE k \in CallsNaming(nm) : \A j \in CallsNaming(nm) : j <= k

\* C27: when assess has returned, rows that were Unresolved after the
\* deterministic pass and share a normalized name have the same Decision, whatever
\* their categories and flags; that Decision comes from the last call of the run
\* that returned the name, and within a call from the last entry carrying it.
C27_SameNameSameDecision ==
  pc = "done" =>
    /\ \A i, j \in amb_mask :
         (/\ det.rows[i].decision = Unresolved
          /\ det.rows[j].decision = Unresolved
          /\ Norm(det.rows[i].name) = Norm(det.rows[j].name))
           => df.rows[i].decision = df.rows[j].decision
    /\ \A i \in amb_mask :
         (det.rows[i].decision = Unresolved /\ CallsNaming(Norm(det.rows[i].name)) # {}) =>
           LET nm == Norm(det.rows[i].name)
               k == LastCallNaming(nm)
           IN  /\ df.rows[i].decision = Gate(calls[k].out[nm]).decision
               /\ calls[k].last_entry_kept

\* two Unresolved rows of one normalized name and different categories, two calls
\* that both returned the name with verdicts the gate maps differently, and both
\* rows carry the second call's
C27_Witness ==
  /\ pc = "done"
  /\ Len(calls) = 2
  /\ \E i, j \in amb_mask :
       /\ det.rows[i].decision = Unresolved
       /\ det.rows[j].decision = Unresolved
       /\ det.rows[i].l1 # det.rows[j].l1
       /\ Norm(det.rows[i].name) = Norm(det.rows[j].name)
       /\ CallsNaming(Norm(det.rows[i].name)) = {1, 2}
       /\ Gate(calls[1].out[Norm(det.rows[i].name)]).decision = Allow
       /\ Gate(calls[2].out[Norm(det.rows[i].name)]).decision = AutoExclude
       /\ df.rows[i].decision = AutoExclude
       /\ df.rows[j].decision = AutoExclude

\* C28: when assess has returned, an ambiguous row whose normalized name has no
\* entry in the merged results of the run has the Decision and the IssueLog the
\* deterministic pass left.
C28_NoVerdictNoChange ==
  pc = "done" =>
    \A i \in amb_mask : ~HasVerdict(i) => df.rows[i] = det.rows[i]

\* an Unresolved row was sent and the run's results hold nothing under its name,
\* while another row of the run got a verdict and was changed by it
C28_Witness ==
  /\ pc = "done"
  /\ \E i, j \in amb_mask :
       /\ det.rows[i].decision = Unresolved
       /\ i \in RowsSent
       /\ ~HasVerdict(i)
       /\ df.rows[i] = det.rows[i]
       /\ HasVerdict(j)
       /\ df.rows[j] # det.rows[j]

\* the five values a Decision may hold
DecisionValues == {Unresolved, AutoExclude, RestrictedCompliant, Review, Allow}

\* the entries the classifier may have returned to the calls of this run that
\* _ai_review accepts
AcceptedEntries ==
  UNION {{e \in EntryPool(calls[k].batch) : e.shape = "record" /\ ConfOk(e)} : k \in 1..Len(calls)}

\* C29: every Decision is one of the five values (never Ignore); an entry without
\* a decision, or with one that is neither exclude nor allow, is stored as a
\* verdict the gate maps to Review; an entry without confidence is stored with
\* confidence 0; and an Unresolved row whose verdict is of such a kind is Review
\* when assess has returned, with the low-confidence note when confidence is 0.
C29_DecisionInFiveValues ==
  /\ \A i \in 1..Len(df.rows) : df.rows[i].decision \in DecisionValues
  /\ \A e \in AcceptedEntries :
       /\ ("decision" \in e.missing \/ Lower(e.decision) \notin {<<"e","x","c","l","u","d","e">>, <<"a","l","l","o","w">>})
            => Gate(VerdictOf(e)).decision = Review
       /\ "confidence" \in e.missing
            => VerdictOf(e).confidence = 0 /\ Gate(VerdictOf(e)).k = "ai_low_confidence"
  /\ pc = "done" =>
       \A i \in amb_mask :
         (det.rows[i].decision = Unresolved /\ HasVerdict(i)) =>
           /\ VerdictFor(i).decision \notin {<<"e","x","c","l","u","d","e">>, <<"a","l","l","o","w">>}
                => df.rows[i].decision = Review
           /\ VerdictFor(i).confidence = 0
                => /\ df.rows[i].decision = Review
                   /\ df.rows[i].issues[Len(df.rows[i].issues)].k = "ai_low_confidence"

\* a run of two calls: the first returned the name without a confidence, the
\* second with a decision that is none of exclude, allow, review, at a confidence
\* that passes the gate; the Unresolved row ended Review
C29_Witness ==
  /\ pc = "done"
  /\ Len(calls) = 2
  /\ \E i \in amb_mask :
       /\ det.rows[i].decision = Unresolved
       /\ Norm(det.rows[i].name) \in DOMAIN calls[1].out
       /\ calls[1].out[Norm(det.rows[i].name)].confidence = 0
       /\ HasVerdict(i)
       /\ VerdictFor(i).decision = <<"m","a","y","b","e">>
       /\ VerdictFor(i).confidence >= AiConfidenceThreshold
       /\ df.rows[i].decision = Review

\* C30: when the deterministic pass has run over its own output (same rules, same
\* items, no AI), every row has the Decision the application before gave it; the
\* later application only appended notes: the row's IssueLog is the earlier one
\* followed by the notes the earlier application had appended last.
C30_PassIdempotentOnDecision ==
  first.rows # <<>> =>
    /\ Len(det.rows) = Len(first.rows)
    /\ \A i \in 1..Len(first.rows) :
         LET old == first.rows[i].issues
             new == det.rows[i].issues
             n   == Len(new) - Len(old)
         IN  /\ det.rows[i].decision = first.rows[i].decision
             /\ n >= 0 /\ n <= Len(old)
             /\ SubSeq(new, 1, Len(old)) = old
             /\ SubSeq(new, Len(old) + 1, Len(new)) = SubSeq(old, Len(old) - n + 1, Len(old))
             /\ det.rows[i] = [first.rows[i] EXCEPT !.issues = new]

\* the pass ran a second time over a frame with a row it had set to Review with a
\* note and a row it had left Unresolved
C30_Witness ==
  /\ pc = "done"
  /\ Len(first.rows) = 2
  /\ \E i, j \in 1..Len(first.rows) :
       /\ first.rows[i].decision = Review
       /\ Len(first.rows[i].issues) >= 1
       /\ Len(det.rows[i].issues) = 2 * Len(first.rows[i].issues)
       /\ det.rows[i].decision = Review
       /\ first.rows[j].decision = Unresolved
       /\ det.rows[j].decision = Unresolved
====
